---- MODULE Spec2Model ----
(***************************************************************************)
(* Vehicle dashboard: the actuator manager (led_manager.rs), the waveform  *)
(* controller (led_pwm.rs), the subscription pumps (subscribers.rs) and    *)
(* the merge tasks and refresh cycle (main.rs).                            *)
(*                                                                         *)
(* Every tokio task is a process whose steps are its polls: a step runs    *)
(* from one suspension point (an .await that has to wait) to the next.     *)
(* The steps of different tasks interleave freely, and with the steps of   *)
(* the timer callback, which runs on the main thread.  The runtime of      *)
(* main.rs has a single worker thread, which only removes interleavings.   *)
(***************************************************************************)
EXTENDS Integers, Sequences, FiniteSets, TLC

\* ------------------------------------------------------------------------
\* Bounds of the model
\* ------------------------------------------------------------------------

\* Number of actuator tasks (tokio::spawn in led_manager.rs) alive at once.
MaxTasks == 2

\* Payloads a topic under load receives beyond the depth of its queue.
ExtraMsgs == 1

\* Lock-state payloads published in a run on the build with the hardware.
LockMsgs == 1

\* Payloads a topic under light traffic receives.
LightMsgs == 2

\* Records the lock-state merge task writes before it stalls.
MergedBeforeStall == 1

\* ------------------------------------------------------------------------
\* Program constants (main.rs): the depths of the bounded channels
\* ------------------------------------------------------------------------

LOCK_STATE_DEPTH == 32

BATTERY_DEPTH == 100

EXTERIOR_DEPTH == 100

SPEED_DEPTH == 100

TRIP_DATA_DEPTH == 100

\* ------------------------------------------------------------------------
\* Program constants (led_pwm.rs)
\* ------------------------------------------------------------------------

PERIOD_US == 10000

PULSE_MIN_US == 0

PULSE_MAX_US == PERIOD_US - 1000

\* step_by(100) of fade_in and fade_out
FADE_STEP == 100

\* ------------------------------------------------------------------------
\* State
\* ------------------------------------------------------------------------

VARIABLES
    arm,         \* build target: TRUE for the arm/aarch64 build (hardware present)
    is_running,  \* LedManager.is_running, the value inside the tokio Mutex
    spawned,     \* tasks spawned by the manager and not polled yet, in spawn order
    waiters,     \* tasks suspended in is_running.lock().await, in queue order
    active,      \* tasks owning a MutexGuard of is_running, in order of acquisition
    pin,         \* the OutputPin of the operation in progress: its last (period, pulse width)
    ret,         \* what the last lock_light/unlock_light/blinker_led call returned
    hw_failed,   \* history: some hardware step has failed so far
    dropped,     \* history: some task took the "already running" branch
    history      \* history: the operation that returned last and the last pulse
                 \* width it wrote, in the runs that follow the pin across operations

ledvars ==
    <<arm, is_running, spawned, waiters, active, pin, ret, hw_failed, dropped, history>>

VARIABLES
    bus,         \* the run's bus traffic: payloads per topic, lock states published,
                 \* and whether malformed payloads occur
    received,    \* per topic: number of samples the pump has received
    bad,         \* per topic: the samples (by arrival number) that failed to decode
    last,        \* per topic: the last record decoded by the pump, NoMsg before
    pump,        \* per topic: the subscription pump task (position, message in send)
    queue,       \* per topic: the content of the bounded mpsc channel
    merge,       \* per topic: the merge task (position, message received)
    model,       \* the shared Model: per topic the slot, NoMsg for None
    rw,          \* the RwLock of the Model: "free" or "read" (held by the refresh cycle)
    counter,     \* the timer callback's counter, modulo 2
    left_signal  \* the left_signal property of the window

pipevars == <<bus, received, bad, last, pump, queue, merge, model, rw, counter, left_signal>>

vars == <<ledvars, pipevars>>

Topics == {"lock_state", "battery", "exterior", "speed", "trip_data"}

\* mpsc::channel::<T>(depth) of each topic
Depth(t) ==
    CASE t = "lock_state" -> LOCK_STATE_DEPTH
      [] t = "battery"    -> BATTERY_DEPTH
      [] t = "exterior"   -> EXTERIOR_DEPTH
      [] t = "speed"      -> SPEED_DEPTH
      [] OTHER            -> TRIP_DATA_DEPTH

\* The values of LockState.state that matter: State::Lock and another one
LockStates == {"Lock", "Unlock"}

\* A decoded record: its arrival number on the topic and, for a LockState,
\* its state field
NoMsg == [id |-> 0, state |-> "none"]

\* Positions of a task between "*is_running = true" and "*is_running = false"
InOp == {"gpio", "write", "clear"}

NoWrite == [period |-> 0, pulse |-> 0, written |-> FALSE]

\* The history of a run that does not follow the pin across operations
NoHistory == [kept |-> FALSE, op |-> "none", ok |-> FALSE, pulse |-> 0]

\* Number of actuator tasks alive
LiveTasks == Len(spawned) + Len(waiters) + Len(active)

\* Sequence s without its i-th element
Remove(s, i) == SubSeq(s, 1, i - 1) \o SubSeq(s, i + 1, Len(s))

\* ------------------------------------------------------------------------
\* Waveform controller (led_pwm.rs)
\* ------------------------------------------------------------------------

\* The number of values of the exclusive range (min..max).step_by(100)
FadeStepsExclusive(min, max) ==
    IF max <= min THEN 0 ELSE ((max - 1 - min) \div FADE_STEP) + 1

\* Number of values of (min..=max).step_by(100)
FadeSteps(min, max) ==
    IF max < min THEN 0 ELSE ((max - min) \div FADE_STEP) + 1

\* k-th pulse width (k = 0, 1, ...) of fade_in: (min..=max).step_by(100)
fade_in(min, max, k) == min + FADE_STEP * k

\* k-th pulse width of a fade-out over the exclusive range (min..max)
fade_out_exclusive(min, max, k) == (max - 1) - FADE_STEP * k

\* k-th pulse width of fade_out: (min..=max).rev().step_by(100)
fade_out(min, max, k) == max - FADE_STEP * k

\* led_on with the whole period as pulse width
blinker_pulse_full(state) == IF state THEN PERIOD_US ELSE 0

\* led_on / led_off: the pulse width of the single write of blinker_led
blinker_pulse(state) == IF state THEN PULSE_MAX_US ELSE 0

\* The pulse width that task record r writes at its current step
PulseOf(r) ==
    CASE r.op = "lock"   -> fade_out(PULSE_MIN_US, PULSE_MAX_US, r.step)
      [] r.op = "unlock" -> fade_in(PULSE_MIN_US, PULSE_MAX_US, r.step)
      [] OTHER           -> blinker_pulse(r.on)

\* Number of hardware writes of the operation of task record r
WritesOf(r) ==
    IF r.op = "blink" THEN 1 ELSE FadeSteps(PULSE_MIN_US, PULSE_MAX_US)

\* ------------------------------------------------------------------------
\* Actuator manager (led_manager.rs)
\* ------------------------------------------------------------------------

\* The task record made by tokio::spawn(async move { ... }).  issued records
\* what the manager was doing when the request was made.
NewTask(op, on) ==
    [pc |-> "spawned", op |-> op, on |-> on, step |-> 0, err |-> FALSE,
     issued |-> IF is_running THEN "running"
                ELSE IF hw_failed THEN "idle_after_failure" ELSE "idle"]

\* A request that takes the mutex in the caller instead of in a spawned task
SpawnBlocking(op, on) ==
    /\ active = <<>>
    /\ LiveTasks < MaxTasks
    /\ spawned' = Append(spawned, NewTask(op, on))
    /\ ret' = "Ok"
    /\ UNCHANGED <<arm, history, is_running, waiters, active, pin, hw_failed, dropped>>

\* tokio::spawn of one task; the call returns Ok(()) at once.  On a build
\* without the hardware the call only returns Ok(()).
Spawn(op, on) ==
    IF arm
    THEN /\ LiveTasks < MaxTasks
         /\ spawned' = Append(spawned, NewTask(op, on))
         /\ ret' = "Ok"
         /\ UNCHANGED <<arm, history, is_running, waiters, active, pin, hw_failed, dropped>>
    ELSE /\ ret' = "Ok"
         /\ UNCHANGED <<arm, history, is_running, spawned, waiters, active, pin, hw_failed,
                        dropped>>

lock_light == Spawn("lock", FALSE)

unlock_light == Spawn("unlock", FALSE)

blinker_led(state) == Spawn("blink", state)

\* manager.is_running.lock(): the mutex can be taken
MutexFree == active = <<>>

\* A gate per kind of operation instead of one for all: a task waits only
\* for a task of its own kind, and starts its operation otherwise
LockPerOperation(i) ==
    /\ i \in 1..Len(spawned)
    /\ spawned' = Remove(spawned, i)
    /\ IF \A j \in 1..Len(active) : active[j].op # spawned[i].op
       THEN /\ active' = Append(active, [spawned[i] EXCEPT !.pc = "gpio"])
            /\ is_running' = TRUE
            /\ UNCHANGED waiters
       ELSE /\ waiters' = Append(waiters, [spawned[i] EXCEPT !.pc = "waiting"])
            /\ UNCHANGED <<active, is_running>>
    /\ UNCHANGED <<arm, history, pin, ret, hw_failed, dropped>>

\* A task that does not wait for the mutex: when the mutex is held it takes
\* the "already running" branch and ends
LockOrDrop(i) ==
    /\ i \in 1..Len(spawned)
    /\ spawned' = Remove(spawned, i)
    /\ IF MutexFree
       THEN /\ active' = Append(active, [spawned[i] EXCEPT !.pc = "locked"])
            /\ UNCHANGED dropped
       ELSE /\ dropped' = TRUE
            /\ UNCHANGED active
    /\ UNCHANGED <<arm, history, is_running, waiters, pin, ret, hw_failed>>

\* First poll of the i-th spawned task: is_running.lock().await
Lock(i) ==
    /\ i \in 1..Len(spawned)
    /\ spawned' = Remove(spawned, i)
    /\ IF MutexFree
       THEN /\ active' = Append(active, [spawned[i] EXCEPT !.pc = "locked"])
            /\ UNCHANGED waiters
       ELSE /\ waiters' = Append(waiters, [spawned[i] EXCEPT !.pc = "waiting"])
            /\ UNCHANGED active
    /\ UNCHANGED <<arm, history, is_running, pin, ret, hw_failed, dropped>>

\* The i-th guard is dropped and its task ends: the mutex goes to the first
\* waiter (the tokio mutex is fair).
Released(i) ==
    IF waiters = <<>>
    THEN Remove(active, i)
    ELSE Append(Remove(active, i), [Head(waiters) EXCEPT !.pc = "locked"])

ReleasedWaiters == IF waiters = <<>> THEN <<>> ELSE Tail(waiters)

\* if *is_running { error!(...); return; }  *is_running = true;
Check(i) ==
    /\ i \in 1..Len(active)
    /\ active[i].pc = "locked"
    /\ IF is_running
       THEN /\ dropped' = TRUE
            /\ active' = Released(i)
            /\ waiters' = ReleasedWaiters
            /\ UNCHANGED is_running
       ELSE /\ is_running' = TRUE
            /\ active' = [active EXCEPT ![i].pc = "gpio"]
            /\ UNCHANGED <<waiters, dropped>>
    /\ UNCHANGED <<arm, history, spawned, pin, ret, hw_failed>>

\* Pin acquisition whose failure ends the task at once (the error
\* propagated with ? out of the task instead of being logged)
GpioGetEarlyReturn(i) ==
    /\ i \in 1..Len(active)
    /\ active[i].pc = "gpio"
    /\ \E ok \in BOOLEAN :
          IF ok
          THEN /\ active' = [active EXCEPT ![i].pc = "write", ![i].step = 0]
               /\ UNCHANGED <<hw_failed, waiters>>
          ELSE /\ active' = Released(i)
               /\ waiters' = ReleasedWaiters
               /\ hw_failed' = TRUE
    /\ UNCHANGED <<arm, history, is_running, spawned, pin, ret, dropped>>

\* Gpio::new()?.get(GPIO_PWM)?.into_output()
GpioGet(i) ==
    /\ i \in 1..Len(active)
    /\ active[i].pc = "gpio"
    /\ \E ok \in BOOLEAN :
          IF ok
          THEN /\ active' = [active EXCEPT ![i].pc = "write", ![i].step = 0]
               /\ UNCHANGED hw_failed
          ELSE /\ active' = [active EXCEPT ![i].pc = "clear", ![i].err = TRUE]
               /\ hw_failed' = TRUE
    /\ UNCHANGED <<arm, history, is_running, spawned, waiters, pin, ret, dropped>>

\* A write whose failure is ignored: the loop goes on with the next value
SetPwmIgnoreError(i) ==
    /\ i \in 1..Len(active)
    /\ active[i].pc = "write"
    /\ \E ok \in BOOLEAN :
          /\ IF ok
             THEN /\ pin' = [period |-> PERIOD_US, pulse |-> PulseOf(active[i]),
                             written |-> TRUE]
                  /\ UNCHANGED hw_failed
             ELSE /\ hw_failed' = TRUE
                  /\ UNCHANGED pin
          /\ IF active[i].step + 1 < WritesOf(active[i])
             THEN active' = [active EXCEPT ![i].step = @ + 1, ![i].err = @ \/ ~ok]
             ELSE active' = [active EXCEPT ![i].pc = "clear", ![i].err = @ \/ ~ok]
    /\ UNCHANGED <<arm, history, is_running, spawned, waiters, ret, dropped>>

\* One hardware write and what follows it up to the next one:
\* led_on / led_off of blinker_led, or the loop body of fade_in / fade_out,
\*     pin.set_pwm(period, pulse)?; sleep(30 ms).await;
\* after which the loop takes its next value or ends.
SetPwm(i) ==
    /\ i \in 1..Len(active)
    /\ active[i].pc = "write"
    /\ \E ok \in BOOLEAN :
          IF ok
          THEN /\ pin' = [period |-> PERIOD_US, pulse |-> PulseOf(active[i]),
                          written |-> TRUE]
               /\ IF active[i].step + 1 < WritesOf(active[i])
                  THEN active' = [active EXCEPT ![i].step = @ + 1]
                  ELSE active' = [active EXCEPT ![i].pc = "clear"]
               /\ UNCHANGED hw_failed
          ELSE /\ active' = [active EXCEPT ![i].pc = "clear", ![i].err = TRUE]
               /\ hw_failed' = TRUE
               /\ UNCHANGED pin
    /\ UNCHANGED <<arm, history, is_running, spawned, waiters, ret, dropped>>

\* The history once the operation of the i-th guard has returned: its kind,
\* whether it returned Ok, and the last pulse width it wrote
Returned(i) ==
    IF ~history.kept THEN history
    ELSE IF active[i].err THEN [kept |-> TRUE, op |-> active[i].op, ok |-> FALSE, pulse |-> 0]
    ELSE [kept |-> TRUE, op |-> active[i].op, ok |-> TRUE, pulse |-> pin.pulse]

\* A task that leaves on the error path without clearing the flag
FinishKeepFlag(i) ==
    /\ i \in 1..Len(active)
    /\ active[i].pc = "clear"
    /\ is_running' = (IF active[i].err THEN is_running ELSE FALSE)
    /\ active' = Released(i)
    /\ waiters' = ReleasedWaiters
    /\ pin' = NoWrite
    /\ history' = Returned(i)
    /\ UNCHANGED <<arm, spawned, ret, hw_failed, dropped>>

\* The operation has returned and its OutputPin is dropped;
\* if let Err(e) = ... { error!(...) }  *is_running = false;  guard dropped
Finish(i) ==
    /\ i \in 1..Len(active)
    /\ active[i].pc = "clear"
    /\ is_running' = FALSE
    /\ active' = Released(i)
    /\ waiters' = ReleasedWaiters
    /\ pin' = NoWrite
    /\ history' = Returned(i)
    /\ UNCHANGED <<arm, spawned, ret, hw_failed, dropped>>

TaskStep(i) ==
    \/ Lock(i)
    \/ Check(i)
    \/ GpioGet(i)
    \/ SetPwm(i)
    \/ Finish(i)

\* ------------------------------------------------------------------------
\* Subscription pumps (subscribers.rs)
\* ------------------------------------------------------------------------

\* The states a payload of topic t can carry in this run
PayloadStates(t) == IF t = "lock_state" THEN bus.states ELSE {"none"}

\* T::decode(&*bytes): the outcomes for a payload of this run
DecodeOutcomes == IF bus.faulty THEN BOOLEAN ELSE {TRUE}

\* ZenohSubscriber::new(session, key_expr).await
Subscribe(t) ==
    /\ pump[t].pc = "subscribing"
    /\ \E ok \in (IF t \in bus.ends THEN BOOLEAN ELSE {TRUE}) :
          pump' = [pump EXCEPT ![t].pc = IF ok THEN "recv" ELSE "exited"]
    /\ UNCHANGED <<bus, received, bad, last, queue, merge, model, rw, counter, left_signal>>
    /\ UNCHANGED ledvars

\* A channel without a bound: the record is always enqueued
SendQueueUnbounded(t, m) ==
    IF merge[t].pc # "exited" THEN Append(queue[t], m) ELSE queue[t]

\* The queue after sender.send(message).await was called with record m.
\* The send fails when the receiver is gone, waits when the queue is full.
SendQueue(t, m) ==
    IF merge[t].pc # "exited" /\ Len(queue[t]) < Depth(t)
    THEN Append(queue[t], m)
    ELSE queue[t]

\* A send that discards the record when the queue is full (try_send)
SendPumpLossy(t, m) ==
    IF merge[t].pc = "exited" THEN [pc |-> "exited", msg |-> NoMsg]
    ELSE [pc |-> "recv", msg |-> NoMsg]

\* The pump after sender.send(message).await was called with record m
SendPump(t, m) ==
    IF merge[t].pc = "exited" THEN [pc |-> "exited", msg |-> NoMsg]
    ELSE IF Len(queue[t]) < Depth(t) THEN [pc |-> "recv", msg |-> NoMsg]
    ELSE [pc |-> "send", msg |-> m]

\* A pump that stops at the first payload it cannot decode
ReceiveStopOnBad(t) ==
    /\ pump[t].pc = "recv"
    /\ received[t] < bus.traffic[t]
    /\ received' = [received EXCEPT ![t] = @ + 1]
    /\ \E ok \in DecodeOutcomes, st \in PayloadStates(t) :
          LET m == [id |-> received[t] + 1, state |-> st] IN
          IF ok
          THEN /\ queue' = [queue EXCEPT ![t] = SendQueue(t, m)]
               /\ pump' = [pump EXCEPT ![t] = SendPump(t, m)]
               /\ last' = [last EXCEPT ![t] = m]
               /\ UNCHANGED bad
          ELSE /\ bad' = [bad EXCEPT ![t] = @ \cup {received[t] + 1}]
               /\ pump' = [pump EXCEPT ![t].pc = "exited"]
               /\ UNCHANGED <<queue, last>>
    /\ UNCHANGED <<bus, merge, model, rw, counter, left_signal>>
    /\ UNCHANGED ledvars

\* A pump that takes no sample while the pump of another topic waits in send
\* (one task serving all the topics in turn)
ReceiveInTurn(t) ==
    /\ \A u \in Topics : pump[u].pc # "send"
    /\ pump[t].pc = "recv"
    /\ received[t] < bus.traffic[t]
    /\ received' = [received EXCEPT ![t] = @ + 1]
    /\ \E ok \in DecodeOutcomes, st \in PayloadStates(t) :
          LET m == [id |-> received[t] + 1, state |-> st] IN
          IF ok
          THEN /\ queue' = [queue EXCEPT ![t] = SendQueue(t, m)]
               /\ pump' = [pump EXCEPT ![t] = SendPump(t, m)]
               /\ last' = [last EXCEPT ![t] = m]
               /\ UNCHANGED bad
          ELSE /\ bad' = [bad EXCEPT ![t] = @ \cup {received[t] + 1}]
               /\ UNCHANGED <<queue, pump, last>>
    /\ UNCHANGED <<bus, merge, model, rw, counter, left_signal>>
    /\ UNCHANGED ledvars

\* while let Ok(sample) = recv_async().await { match T::decode(..) { .. } }
\* One sample arrives: it is decoded and sent, or the failure is logged.
Receive(t) ==
    /\ pump[t].pc = "recv"
    /\ received[t] < bus.traffic[t]
    /\ received' = [received EXCEPT ![t] = @ + 1]
    /\ \E ok \in DecodeOutcomes, st \in PayloadStates(t) :
          LET m == [id |-> received[t] + 1, state |-> st] IN
          IF ok
          THEN /\ queue' = [queue EXCEPT ![t] = SendQueue(t, m)]
               /\ pump' = [pump EXCEPT ![t] = SendPump(t, m)]
               /\ last' = [last EXCEPT ![t] = m]
               /\ UNCHANGED bad
          ELSE /\ bad' = [bad EXCEPT ![t] = @ \cup {received[t] + 1}]
               /\ UNCHANGED <<queue, pump, last>>
    /\ UNCHANGED <<bus, merge, model, rw, counter, left_signal>>
    /\ UNCHANGED ledvars

\* The pending send completes once the merge task has made room
SendResume(t) ==
    /\ pump[t].pc = "send"
    /\ Len(queue[t]) < Depth(t)
    /\ queue' = [queue EXCEPT ![t] = Append(@, pump[t].msg)]
    /\ pump' = [pump EXCEPT ![t] = [pc |-> "recv", msg |-> NoMsg]]
    /\ UNCHANGED <<bus, received, bad, last, merge, model, rw, counter, left_signal>>
    /\ UNCHANGED ledvars

\* recv_async() returns Err: the subscription has ended, the task ends and
\* drops its sender
SubscriptionEnd(t) ==
    /\ pump[t].pc = "recv"
    /\ t \in bus.ends
    /\ pump' = [pump EXCEPT ![t].pc = "exited"]
    /\ UNCHANGED <<bus, received, bad, last, queue, merge, model, rw, counter, left_signal>>
    /\ UNCHANGED ledvars

\* ------------------------------------------------------------------------
\* Merge tasks and refresh cycle (main.rs)
\* ------------------------------------------------------------------------

\* A receive that takes the newest record first
DequeueNewest(q) == [msg |-> q[Len(q)], rest |-> SubSeq(q, 1, Len(q) - 1)]

\* rx.recv().await on a queue that is not empty: the record at its head
Dequeue(q) == [msg |-> Head(q), rest |-> Tail(q)]

\* while let Some(x) = rx.recv().await: a record is received
MergeRecv(t) ==
    /\ merge[t].pc = "recv"
    /\ queue[t] # <<>>
    /\ merge' = [merge EXCEPT ![t] = [pc |-> "write", msg |-> Dequeue(queue[t]).msg]]
    /\ queue' = [queue EXCEPT ![t] = Dequeue(queue[t]).rest]
    /\ UNCHANGED <<bus, received, bad, last, pump, model, rw, counter, left_signal>>
    /\ UNCHANGED ledvars

\* A merge that replaces the whole Model by one with only its own slot set
MergeWriteWholeModel(t) ==
    /\ merge[t].pc = "write"
    /\ rw = "free"
    /\ model' = [u \in Topics |-> IF u = t THEN merge[t].msg ELSE NoMsg]
    /\ merge' = [merge EXCEPT ![t] = [pc |-> "recv", msg |-> NoMsg]]
    /\ UNCHANGED <<bus, received, bad, last, pump, queue, rw, counter, left_signal>>
    /\ UNCHANGED ledvars

\* A merge that assigns the slot without taking the write lock
MergeWriteUnlocked(t) ==
    /\ merge[t].pc = "write"
    /\ model' = [model EXCEPT ![t] = merge[t].msg]
    /\ merge' = [merge EXCEPT ![t] = [pc |-> "recv", msg |-> NoMsg]]
    /\ UNCHANGED <<bus, received, bad, last, pump, queue, rw, counter, left_signal>>
    /\ UNCHANGED ledvars

\* let mut model = model_clone.write().unwrap(); model.<slot> = Some(x);
MergeWrite(t) ==
    /\ merge[t].pc = "write"
    /\ rw = "free"
    /\ model' = [model EXCEPT ![t] = merge[t].msg]
    /\ merge' = [merge EXCEPT ![t] = [pc |-> "recv", msg |-> NoMsg]]
    /\ UNCHANGED <<bus, received, bad, last, pump, queue, rw, counter, left_signal>>
    /\ UNCHANGED ledvars

\* A receive that reports closure as soon as the sender is dropped
MergeExitOnSenderDropped(t) ==
    /\ merge[t].pc = "recv"
    /\ pump[t].pc = "exited"
    /\ merge' = [merge EXCEPT ![t].pc = "exited"]
    /\ UNCHANGED <<bus, received, bad, last, pump, queue, model, rw, counter, left_signal>>
    /\ UNCHANGED ledvars

\* A merge task that ends as soon as its queue is empty
MergeExitOnEmpty(t) ==
    /\ merge[t].pc = "recv"
    /\ queue[t] = <<>>
    /\ merge' = [merge EXCEPT ![t].pc = "exited"]
    /\ UNCHANGED <<bus, received, bad, last, pump, queue, model, rw, counter, left_signal>>
    /\ UNCHANGED ledvars

\* rx.recv().await returns None: the sender is dropped and the queue is empty
MergeExit(t) ==
    /\ merge[t].pc = "recv"
    /\ queue[t] = <<>>
    /\ pump[t].pc = "exited"
    /\ merge' = [merge EXCEPT ![t].pc = "exited"]
    /\ UNCHANGED <<bus, received, bad, last, pump, queue, model, rw, counter, left_signal>>
    /\ UNCHANGED ledvars

\* is_lock of the timer callback
IsLock == model["lock_state"] # NoMsg /\ model["lock_state"].state = "Lock"

\* A lock-state branch that calls unlock_light when the state is not Lock
TickLockStateSwapped ==
    /\ rw = "free"
    /\ rw' = "read"
    /\ IF model["lock_state"] = NoMsg
       THEN UNCHANGED ledvars
       ELSE IF IsLock THEN lock_light ELSE unlock_light
    /\ UNCHANGED <<bus, received, bad, last, pump, queue, merge, model, counter, left_signal>>

\* Timer callback, first part: model_clone.read().unwrap(), the adapters are
\* set from the slots, and the lock-state branch calls lock_light or
\* unlock_light.  The read guard is kept.
TickLockState ==
    /\ rw = "free"
    /\ rw' = "read"
    /\ IF model["lock_state"] = NoMsg
       THEN UNCHANGED ledvars
       ELSE IF ~IsLock THEN lock_light ELSE unlock_light
    /\ UNCHANGED <<bus, received, bad, last, pump, queue, merge, model, counter, left_signal>>

\* Timer callback, second part: the counter branch (blinker on even counts),
\* counter += 1, and the read guard is dropped.
TickBlinker ==
    /\ rw = "read"
    /\ rw' = "free"
    /\ counter' = (counter + 1) % 2
    /\ IF counter % 2 = 0
       THEN /\ left_signal' = ~left_signal
            /\ IF IsLock THEN blinker_led(left_signal) ELSE UNCHANGED ledvars
       ELSE UNCHANGED <<left_signal, ledvars>>
    /\ UNCHANGED <<bus, received, bad, last, pump, queue, merge, model>>

\* ------------------------------------------------------------------------
\* The actuator manager under an arbitrary caller
\* ------------------------------------------------------------------------

\* A run of the bus in which nothing is published
QuietRun ==
    [traffic |-> [t \in Topics |-> 0], states |-> {"Lock"}, faulty |-> FALSE,
     ends |-> {}]

\* The pipeline of a run: every pump of a topic that is published or that can
\* end has its subscription to make, the others wait for samples
InitPipeline(run) ==
    /\ bus = run
    /\ received = [t \in Topics |-> 0]
    /\ bad = [t \in Topics |-> {}]
    /\ last = [t \in Topics |-> NoMsg]
    /\ pump = [t \in Topics |->
                 [pc |-> IF run.traffic[t] > 0 \/ t \in run.ends
                         THEN "subscribing" ELSE "recv",
                  msg |-> NoMsg]]
    /\ queue = [t \in Topics |-> <<>>]
    /\ merge = [t \in Topics |-> [pc |-> "recv", msg |-> NoMsg]]
    /\ model = [t \in Topics |-> NoMsg]
    /\ rw = "free"
    /\ counter = 0
    /\ left_signal = FALSE

InitManagerWith(target, h) ==
    /\ arm = target
    /\ is_running = FALSE
    /\ spawned = <<>>
    /\ waiters = <<>>
    /\ active = <<>>
    /\ pin = NoWrite
    /\ ret = "none"
    /\ hw_failed = FALSE
    /\ dropped = FALSE
    /\ history = h

InitManager(target) == InitManagerWith(target, NoHistory)

InitLed == InitManager(TRUE) /\ InitPipeline(QuietRun)

CallLock == lock_light /\ UNCHANGED pipevars

CallUnlock == unlock_light /\ UNCHANGED pipevars

CallBlinker == (\E state \in BOOLEAN : blinker_led(state)) /\ UNCHANGED pipevars

NextLed ==
    \/ CallLock
    \/ CallUnlock
    \/ CallBlinker
    \/ \E i \in 1..MaxTasks : TaskStep(i) /\ UNCHANGED pipevars

SpecLed == InitLed /\ [][NextLed]_vars

\* The runtime polls every task that can run; a sleep wakes up; a hardware
\* write returns.
FairLed ==
    /\ WF_vars(\E i \in 1..MaxTasks : Lock(i) /\ UNCHANGED pipevars)
    /\ WF_vars(\E i \in 1..MaxTasks :
                   (Check(i) \/ GpioGet(i) \/ SetPwm(i) \/ Finish(i))
                   /\ UNCHANGED pipevars)

FairSpecLed == SpecLed /\ FairLed

\* ------------------------------------------------------------------------
\* The actuator manager under a caller that waits for each operation
\* ------------------------------------------------------------------------

\* The history of a run that follows the pin, before the first operation
EmptyHistory == [kept |-> TRUE, op |-> "none", ok |-> FALSE, pulse |-> 0]

InitFade == InitManagerWith(TRUE, EmptyHistory) /\ InitPipeline(QuietRun)

\* A request is made only when no task of an earlier request is left
NextFade ==
    \/ LiveTasks = 0 /\ CallLock
    \/ LiveTasks = 0 /\ CallUnlock
    \/ LiveTasks = 0 /\ CallBlinker
    \/ \E i \in 1..MaxTasks : TaskStep(i) /\ UNCHANGED pipevars

SpecFade == InitFade /\ [][NextFade]_vars

\* ------------------------------------------------------------------------
\* The telemetry pipeline on a build without the hardware
\* ------------------------------------------------------------------------

\* One topic under load: more payloads than its queue holds
HeavyRun(h) ==
    [traffic |-> [t \in Topics |-> IF t = h THEN Depth(h) + ExtraMsgs ELSE 0],
     states |-> {"Lock"}, faulty |-> FALSE, ends |-> {}]

\* The lock-state topic under load and one other topic with light traffic
IsolationRun(l) ==
    [traffic |-> [t \in Topics |->
                    IF t = "lock_state" THEN Depth(t) + ExtraMsgs
                    ELSE IF t = l THEN LightMsgs ELSE 0],
     states |-> {"Lock"}, faulty |-> FALSE, ends |-> {}]

\* Two topics with light traffic, malformed payloads and subscriptions that
\* can end
LightRun(a, b) ==
    [traffic |-> [t \in Topics |-> IF t \in {a, b} THEN LightMsgs ELSE 0],
     states |-> LockStates, faulty |-> TRUE, ends |-> {a, b}]

\* With light traffic no queue fills, so that no pump waits in send
NextPipe ==
    \/ \E t \in Topics : Subscribe(t)
    \/ \E t \in Topics : Receive(t)
    \/ \E t \in Topics : SubscriptionEnd(t)
    \/ \E t \in Topics : MergeRecv(t)
    \/ \E t \in Topics : MergeWrite(t)
    \/ \E t \in Topics : MergeExit(t)
    \/ TickLockState
    \/ TickBlinker

\* Light traffic on the lock-state topic and on one other topic
InitPipe ==
    /\ InitManager(FALSE)
    /\ \E b \in Topics \ {"lock_state"} : InitPipeline(LightRun("lock_state", b))

SpecPipe == InitPipe /\ [][NextPipe]_vars

\* The merge tasks are polled when they can run, they get the write lock
\* between two ticks, and the timer callback returns.  Nothing is assumed
\* of the bus or of the pumps.
FairPipe ==
    /\ \A t \in Topics :
          /\ WF_vars(MergeRecv(t))
          /\ SF_vars(MergeWrite(t))
          /\ WF_vars(MergeExit(t))
    /\ WF_vars(TickBlinker)

FairSpecPipe == SpecPipe /\ FairPipe

\* The subscriptions of a run under load do not end
NextLoad ==
    \/ \E t \in Topics : Subscribe(t)
    \/ \E t \in Topics : Receive(t)
    \/ \E t \in Topics : SendResume(t)
    \/ \E t \in Topics : MergeRecv(t)
    \/ \E t \in Topics : MergeWrite(t)
    \/ TickLockState
    \/ TickBlinker

\* Each topic in turn under load
InitLoad ==
    /\ InitManager(FALSE)
    /\ \E h \in Topics : InitPipeline(HeavyRun(h))

SpecLoad == InitLoad /\ [][NextLoad]_vars

\* The lock-state merge task is slow: it takes a few records and stalls
SlowMergeRecv ==
    /\ queue["lock_state"] # <<>>
    /\ Head(queue["lock_state"]).id <= MergedBeforeStall
    /\ MergeRecv("lock_state")

NextIsolation ==
    \/ \E t \in Topics : Subscribe(t)
    \/ \E t \in Topics : Receive(t)
    \/ \E t \in Topics : SendResume(t)
    \/ \E t \in Topics \ {"lock_state"} : MergeRecv(t)
    \/ SlowMergeRecv
    \/ \E t \in Topics : MergeWrite(t)
    \/ TickLockState
    \/ TickBlinker

\* The lock-state topic under load next to one other topic
InitIsolation ==
    /\ InitManager(FALSE)
    /\ \E l \in Topics \ {"lock_state"} : InitPipeline(IsolationRun(l))

SpecIsolation == InitIsolation /\ [][NextIsolation]_vars

\* The tasks of the topics other than lock-state are polled when they can
\* run, the timer callback returns, and a merge task gets the write lock
\* between two ticks.  Nothing is assumed of the lock-state tasks.
FairIsolation ==
    /\ \A t \in Topics \ {"lock_state"} :
          /\ WF_vars(Subscribe(t))
          /\ WF_vars(Receive(t))
          /\ WF_vars(SendResume(t))
          /\ WF_vars(MergeRecv(t))
          /\ SF_vars(MergeWrite(t))
    /\ WF_vars(TickBlinker)

FairSpecIsolation == SpecIsolation /\ FairIsolation

\* ------------------------------------------------------------------------
\* Pipeline, refresh cycle and actuator manager on the build with the
\* hardware
\* ------------------------------------------------------------------------

\* Lock-state payloads with a state other than State::Lock, nothing on the
\* other topics
UnlockedRun ==
    [traffic |-> [t \in Topics |-> IF t = "lock_state" THEN LockMsgs ELSE 0],
     states |-> {"Unlock"}, faulty |-> FALSE, ends |-> {}]

InitEndToEnd == InitManager(TRUE) /\ InitPipeline(UnlockedRun)

NextEndToEnd ==
    \/ Subscribe("lock_state")
    \/ Receive("lock_state")
    \/ MergeRecv("lock_state")
    \/ MergeWrite("lock_state")
    \/ TickLockState
    \/ TickBlinker
    \/ \E i \in 1..MaxTasks : TaskStep(i) /\ UNCHANGED pipevars

SpecEndToEnd == InitEndToEnd /\ [][NextEndToEnd]_vars

\* The runtime polls the actuator tasks; nothing is assumed of the bus, of
\* the merge task or of the timer.
FairSpecEndToEnd == SpecEndToEnd /\ FairLed

\* ------------------------------------------------------------------------
\* Claims about the actuator manager
\* ------------------------------------------------------------------------

\* The tasks that are between "*is_running = true" and "*is_running = false"
Operating == {i \in 1..Len(active) : active[i].pc \in InOp}

\* C1: at most one task, of whatever kind of operation (lock, unlock or
\* blink), is between setting is_running to true and setting it to false.
C1_OneOperationAtATime == Cardinality(Operating) <= 1

\* C1 witness: a fade is past its first write while a request of another
\* kind is pending behind it.
C1_Witness ==
    /\ \E i \in Operating : active[i].pc = "write" /\ active[i].step > 0
    /\ waiters # <<>>
    /\ \A i \in Operating : waiters[1].op # active[i].op

\* C2: a request made while is_running is true is dropped: its task never
\* sets the flag and never runs a waveform operation, at once or later.
C2_BusyRequestDropped ==
    \A i \in 1..Len(active) :
        active[i].issued = "running" => active[i].pc \notin InOp

\* C3: every call returns Ok, and a call can be made in every state: it
\* waits neither for the mutex nor for the operation in progress.
C3_CallReturnsAtOnce ==
    /\ ret \in {"none", "Ok"}
    /\ LiveTasks < MaxTasks =>
          /\ ENABLED CallLock
          /\ ENABLED CallUnlock
          /\ \A state \in BOOLEAN : ENABLED (blinker_led(state) /\ UNCHANGED pipevars)

\* C3 witness: a call made while an operation was running has returned Ok
\* and its task is pending while the fade goes on.
C3_Witness ==
    /\ ret = "Ok"
    /\ is_running
    /\ \E i \in Operating : active[i].pc = "write" /\ active[i].step > 0
    /\ \E j \in 1..Len(spawned) : spawned[j].issued = "running"

\* C4: a hardware failure never leaves the flag set with no operation in
\* progress, it never reaches the caller, and a request made while idle after
\* a failure that gets the mutex finds the flag false.
C4_FailureRestoresIdle ==
    /\ is_running => Operating # {}
    /\ ret # "Err"
    /\ \A i \in 1..Len(active) :
          active[i].issued = "idle_after_failure" /\ active[i].pc = "locked"
             => ~is_running

\* C4 witness: a request made while idle after a hardware failure is running
\* its waveform operation.
C4_Witness ==
    \E i \in Operating :
        /\ active[i].issued = "idle_after_failure"
        /\ active[i].pc = "write"
        /\ active[i].step > 0

\* C5: whenever is_running is true it becomes false again, and a fade that
\* ends without a failure has made 91 writes.
C5_OperationTerminates ==
    /\ is_running ~> ~is_running
    /\ [](\A i \in 1..Len(active) :
             (active[i].op # "blink" /\ active[i].pc = "clear" /\ ~active[i].err)
                => active[i].step + 1 = 91)

\* C5 witness: a fade has made its last write without a failure.
C5_Witness ==
    \E i \in Operating :
        /\ active[i].op = "unlock"
        /\ active[i].pc = "clear"
        /\ ~active[i].err
        /\ pin.pulse = PULSE_MAX_US

\* ------------------------------------------------------------------------
\* Claims about the telemetry pipeline
\* ------------------------------------------------------------------------

\* The records of topic t between pump and slot, oldest first: the one the
\* merge task is about to write, the queue, the one the pump is sending
InFlight(t) ==
    (IF merge[t].pc = "write" THEN <<merge[t].msg>> ELSE <<>>)
    \o queue[t]
    \o (IF pump[t].pc = "send" THEN <<pump[t].msg>> ELSE <<>>)

\* The arrival numbers of the samples of topic t that decoded, after number w
DecodedAfter(t, w) == {n \in (w + 1)..received[t] : n \notin bad[t]}

\* Every record the pump of topic t forwarded has been written to the slot
Drained(t) == InFlight(t) = <<>>

\* C6: once the merge task has written all the records decoded on a topic,
\* the slot of the topic holds the last record decoded on it.
C6_SlotHoldsLastMessage ==
    \A t \in Topics : (Drained(t) /\ last[t] # NoMsg) => model[t] = last[t]

\* C6 witness: two records were decoded on the lock-state topic, with
\* different states, while the other topic had records in flight; all of the
\* lock-state records are written and the slot holds the second.
C6_Witness ==
    /\ Drained("lock_state")
    /\ received["lock_state"] = 2
    /\ bad["lock_state"] = {}
    /\ model["lock_state"] = [id |-> 2, state |-> "Unlock"]
    /\ \E t \in Topics \ {"lock_state"} : InFlight(t) # <<>>

\* C7: within a topic nothing is lost, duplicated or reordered: the records
\* between pump and slot are exactly the decoded records that follow the one
\* in the slot, in arrival order; every write of the merge task is the first
\* of them; and a pump in send keeps its record while the queue is full.
C7_NoLossNoReorder ==
    /\ [](\A t \in Topics :
            LET f == InFlight(t) IN
            /\ {f[k].id : k \in 1..Len(f)} = DecodedAfter(t, model[t].id)
            /\ \A k \in 1..(Len(f) - 1) : f[k].id < f[k + 1].id)
    /\ [][\A t \in Topics :
            model'[t] # model[t] =>
               /\ model'[t].id \in DecodedAfter(t, model[t].id)
               /\ \A n \in DecodedAfter(t, model[t].id) : model'[t].id <= n]_vars

\* C7 witness: the record that waited in send on the full lock-state queue
\* has been written to the slot.
C7_Witness ==
    /\ model["lock_state"].id = LOCK_STATE_DEPTH + 1
    /\ received["lock_state"] = LOCK_STATE_DEPTH + 1

\* C8: the lock-state queue never holds more than 32 records and the other
\* queues never more than 100; a pump waits in send only with a record that
\* is not in the queue, and it leaves send only when the queue has room.
C8_QueueBounded ==
    /\ [](/\ Len(queue["lock_state"]) <= 32
          /\ \A t \in Topics \ {"lock_state"} : Len(queue[t]) <= 100
          /\ \A t \in Topics :
                pump[t].pc = "send" =>
                   \A k \in 1..Len(queue[t]) : queue[t][k] # pump[t].msg)
    /\ [][\A t \in Topics :
            (pump[t].pc = "send" /\ pump'[t].pc # "send") =>
               (Len(queue[t]) < Depth(t) /\ queue'[t] = Append(queue[t], pump[t].msg))
         ]_vars

\* C8 witness: a queue of depth 100 is full and its pump waits in send.
C8_Witness ==
    /\ Len(queue["speed"]) = 100
    /\ pump["speed"].pc = "send"

\* C9: a payload that fails to decode changes neither the queue nor the
\* slots and leaves the pump receiving; no such payload is ever in the queue,
\* in a task or in a slot.
C9_DecodeFailureSkipped ==
    /\ [](\A t \in Topics :
            LET f == InFlight(t) IN
            /\ \A k \in 1..Len(f) : f[k].id \notin bad[t]
            /\ model[t].id \notin bad[t])
    /\ [][\A t \in Topics :
            bad'[t] # bad[t] =>
               /\ queue' = queue
               /\ model' = model
               /\ merge' = merge
               /\ pump'[t].pc = "recv"]_vars

\* C9 witness: the first payload of a topic failed to decode, the second one
\* decoded and is in the slot.
C9_Witness ==
    \E t \in Topics :
        /\ bad[t] = {1}
        /\ model[t].id = 2

\* The pump of topic a waits in send on its full queue
Blocked(a) == pump[a].pc = "send" /\ Len(queue[a]) = Depth(a)

\* C10: while the pump of one topic waits in send on its full queue, the
\* pump of every other topic can take its next sample and every other merge
\* task can take its next record; and even if the lock-state merge task
\* stalls for ever, every record published on another topic reaches its slot.
C10_TopicIsolation ==
    /\ [](\A a \in Topics : Blocked(a) =>
            \A b \in Topics \ {a} :
               /\ (pump[b].pc = "recv" /\ received[b] < bus.traffic[b])
                     => ENABLED Receive(b)
               /\ (merge[b].pc = "recv" /\ queue[b] # <<>>)
                     => ENABLED MergeRecv(b))
    /\ \A b \in Topics \ {"lock_state"} : <>(model[b].id = bus.traffic[b])

\* C10 witness: the lock-state pump waits in send, its merge task has merged
\* nothing, and the record of another topic has reached its slot.
C10_Witness ==
    /\ Blocked("lock_state")
    /\ model["lock_state"] = NoMsg
    /\ \E b \in Topics \ {"lock_state"} :
          bus.traffic[b] > 0 /\ model[b].id = bus.traffic[b]

\* The pump of topic t has ended and has dropped its sender
PumpGone(t) == pump[t].pc = "exited"

\* The merge task of topic t has ended
MergeGone(t) == merge[t].pc = "exited"

\* C11: a pump that has exited stays exited and takes no further sample (no
\* resubscription, no retry); a merge task has exited only if its pump has
\* dropped the sender, and has left nothing in the queue; once the merge task
\* has exited the slot of the topic never changes; and the step in which a
\* pump or a merge task exits changes no pump, queue, merge task or slot of
\* another topic.
C11_ShutdownCascade ==
    /\ [](\A t \in Topics : MergeGone(t) => (PumpGone(t) /\ queue[t] = <<>>))
    /\ [][\A t \in Topics :
            /\ PumpGone(t) =>
                  (pump'[t] = pump[t] /\ received'[t] = received[t]
                   /\ Len(queue'[t]) <= Len(queue[t]))
            /\ MergeGone(t) => (merge'[t] = merge[t] /\ model'[t] = model[t])
            /\ ((~PumpGone(t) /\ PumpGone(t)') \/ (~MergeGone(t) /\ MergeGone(t)')) =>
                  \A u \in Topics \ {t} :
                     /\ pump'[u] = pump[u]
                     /\ queue'[u] = queue[u]
                     /\ merge'[u] = merge[u]
                     /\ model'[u] = model[u]]_vars

\* C11 witness: the lock-state subscription ended after its first record,
\* pump and merge task have exited with that record in the slot, and another
\* topic, whose merge task is alive, has had all its records merged.
C11_Witness ==
    /\ MergeGone("lock_state")
    /\ received["lock_state"] = 1
    /\ model["lock_state"].id = 1
    /\ \E u \in Topics \ {"lock_state"} :
          /\ ~MergeGone(u)
          /\ bus.traffic[u] > 0
          /\ model[u].id = bus.traffic[u]

\* The step is the write of the merge task of topic t
WriteStepOf(t) ==
    /\ merge[t].pc = "write"
    /\ merge'[t].pc = "recv"
    /\ \A u \in Topics \ {t} : merge'[u] = merge[u]

\* The step is a step of the refresh cycle (the timer callback)
RefreshStep == rw' # rw

\* C12: a slot changes only in the write step of the merge task of its own
\* topic; that step puts the task's record in the slot and leaves the four
\* other slots unchanged; and a step of the refresh cycle changes no slot.
C12_OneWriterPerSlot ==
    [][/\ \A t \in Topics :
             /\ model'[t] # model[t] => WriteStepOf(t)
             /\ WriteStepOf(t) =>
                   /\ model'[t] = merge[t].msg
                   /\ model'[t] # model[t]
                   /\ \A u \in Topics \ {t} : model'[u] = model[u]
       /\ RefreshStep => model' = model]_vars

\* C12 witness: the slots of two topics have been written, each by its own
\* merge task, while the merge task of the second topic has its next record
\* to write and the refresh cycle is reading.
C12_Witness ==
    /\ model["lock_state"].id = 2
    /\ rw = "read"
    /\ \E u \in Topics \ {"lock_state"} :
          /\ model[u].id = 1
          /\ merge[u].pc = "write"

\* The refresh cycle holds the read guard of the Model
Reading == rw = "read"

\* Slot t is None, and no record of the topic has been merged: every record
\* decoded so far is still between pump and slot
EmptySlot(t) ==
    /\ model[t] = NoMsg
    /\ Len(InFlight(t)) = Cardinality(DecodedAfter(t, 0))

\* Slot t holds one record as the pump decoded it: the arrival number of a
\* sample that decoded, with a state that sample can carry, and the very
\* record the pump decoded last if it has that number
WholeSlot(t) ==
    /\ model[t].id \in DecodedAfter(t, 0)
    /\ model[t].state \in PayloadStates(t)
    /\ model[t].id = last[t].id => model[t] = last[t]

\* C13: whenever the refresh cycle is reading, every slot is either empty,
\* with no record of its kind merged so far, or one complete decoded record;
\* and no slot changes while the refresh cycle holds the read guard, so the
\* whole tick sees the same records.
C13_NoTornRead ==
    /\ [](Reading => \A t \in Topics : EmptySlot(t) \/ WholeSlot(t))
    /\ [][Reading => model' = model]_vars

\* C13 witness: the refresh cycle is reading the first lock-state record
\* while the merge task waits for the write lock with the second one, which
\* has another state.
C13_Witness ==
    /\ Reading
    /\ model["lock_state"].id = 1
    /\ merge["lock_state"].pc = "write"
    /\ merge["lock_state"].msg.id = 2
    /\ merge["lock_state"].msg.state # model["lock_state"].state

\* ------------------------------------------------------------------------
\* Claims about the waveform controller
\* ------------------------------------------------------------------------

\* The tasks that are about to make a hardware write
Writing == {i \in 1..Len(active) : active[i].pc = "write"}

\* C14: every hardware write, made or about to be made by a blinker, fade-in
\* or fade-out operation, has period 10000 and a pulse width from 0 to 9000,
\* which is period - 1000 and so below the period.
C14_PulseWithinPeriod ==
    /\ PULSE_MAX_US = 9000
    /\ pin.written =>
          /\ pin.period = 10000
          /\ 0 <= pin.pulse /\ pin.pulse <= 9000
          /\ pin.pulse < pin.period
    /\ \A i \in Writing :
          0 <= PulseOf(active[i]) /\ PulseOf(active[i]) <= 9000

\* C14 witness: blinker_led(true) has written the largest pulse width.
C14_Witness ==
    \E i \in Operating :
        /\ active[i].op = "blink"
        /\ active[i].on
        /\ active[i].pc = "clear"
        /\ pin = [period |-> PERIOD_US, pulse |-> PULSE_MAX_US, written |-> TRUE]

\* Task i makes a hardware write in this step
Writes(i) == i \in Writing /\ pin' # pin

\* C15: the first write of a fade-in is min = 0 and each later one is the
\* one before plus 100; the first write of a fade-out is max = 9000 and each
\* later one is the one before minus 100; every write is one step of the
\* loop, followed by its suspension; and a fade that ends without a write
\* failure has made its last write at max (fade-in) or min (fade-out), after
\* 91 writes.
C15_FadeSequences ==
    /\ [][\A i \in 1..Len(active) :
            /\ (Writes(i) /\ active[i].op = "unlock") =>
                  /\ pin'.pulse = IF active[i].step = 0 THEN 0 ELSE pin.pulse + 100
                  /\ pin.written <=> active[i].step > 0
            /\ (Writes(i) /\ active[i].op = "lock") =>
                  /\ pin'.pulse = IF active[i].step = 0 THEN 9000 ELSE pin.pulse - 100
                  /\ pin.written <=> active[i].step > 0
            /\ (Writes(i) /\ active[i].op # "blink") =>
                  \/ active'[i].pc = "write" /\ active'[i].step = active[i].step + 1
                  \/ active'[i].pc = "clear" /\ active'[i].step = active[i].step
         ]_vars
    /\ [](\A i \in 1..Len(active) :
            (active[i].pc = "clear" /\ ~active[i].err /\ active[i].op # "blink") =>
               /\ active[i].step + 1 = 91
               /\ pin.written
               /\ pin.pulse = IF active[i].op = "unlock" THEN PULSE_MAX_US
                                                          ELSE PULSE_MIN_US)

\* C15 witness: a fade-out has made its last write, of min, with no failure.
C15_Witness ==
    \E i \in Operating :
        /\ active[i].op = "lock"
        /\ active[i].pc = "clear"
        /\ ~active[i].err
        /\ pin.pulse = PULSE_MIN_US
        /\ pin.written

\* Task i makes the first hardware write of its operation in this step
FirstWrite(i) == Writes(i) /\ active[i].step = 0

\* The operation before the one in progress was op and returned Ok
After(op) == history.kept /\ history.op = op /\ history.ok

\* C16: a lock fade that follows an unlock fade makes its first write at
\* the pulse width the unlock fade wrote last, and its last write at min;
\* an unlock fade that follows a lock fade makes its first write at the
\* pulse width the lock fade wrote last, and its last write at max.
C16_RoundTrip ==
    /\ [][\A i \in 1..Len(active) :
            /\ (FirstWrite(i) /\ active[i].op = "lock" /\ After("unlock")) =>
                  pin'.pulse = history.pulse
            /\ (FirstWrite(i) /\ active[i].op = "unlock" /\ After("lock")) =>
                  pin'.pulse = history.pulse
         ]_vars
    /\ [](\A i \in 1..Len(active) :
            (active[i].pc = "clear" /\ ~active[i].err) =>
               /\ (active[i].op = "lock" /\ After("unlock")) =>
                     (pin.written /\ pin.pulse = PULSE_MIN_US)
               /\ (active[i].op = "unlock" /\ After("lock")) =>
                     (pin.written /\ pin.pulse = PULSE_MAX_US))

\* C16 witness: an unlock fade returned Ok after its last write at max, the
\* manager was idle, and the lock fade that followed has made its last write.
C16_Witness ==
    /\ After("unlock")
    /\ history.pulse = PULSE_MAX_US
    /\ \E i \in Operating :
          /\ active[i].op = "lock"
          /\ active[i].issued = "idle"
          /\ active[i].pc = "clear"
          /\ ~active[i].err
          /\ pin.pulse = PULSE_MIN_US

\* C17: a task whose hardware step has failed is at the point where the
\* manager logs the error; while it is there no write is made, and its only
\* step clears the flag and ends it, with the operation not started again.
C17_FailedWriteAborts ==
    /\ [](\A i \in 1..Len(active) : active[i].err => active[i].pc = "clear")
    /\ [][\A i \in 1..Len(active) :
            active[i].err =>
               \/ /\ i <= Len(active')
                  /\ active'[i] = active[i]
                  /\ pin' = pin
                  /\ is_running' = is_running
               \/ /\ is_running /\ ~is_running'
                  /\ pin' = NoWrite
                  /\ \A j \in 1..Len(active') : ~active'[j].err
         ]_vars

\* C17 witness: a write of a fade failed after some steps: the pin holds
\* the pulse width of the step before and the task is on its error path.
C17_Witness ==
    \E i \in Operating :
        /\ active[i].err
        /\ active[i].op = "lock"
        /\ active[i].step = 3
        /\ pin.written
        /\ pin.pulse = fade_out(PULSE_MIN_US, PULSE_MAX_US, 2)

\* ------------------------------------------------------------------------
\* Claims about the whole program
\* ------------------------------------------------------------------------

\* The lock-state slot holds a record with a state other than Lock
SlotUnlocked == model["lock_state"] # NoMsg /\ model["lock_state"].state # "Lock"

\* The manager is idle: the flag is false and no task is left
Idle == ~is_running /\ LiveTasks = 0

\* The step is the first part of a refresh tick
TickStarts == rw = "free" /\ rw' = "read"

\* The only task is a lock request made while the manager was idle
IdleLockIssued ==
    /\ ~is_running
    /\ LiveTasks = 1
    /\ Len(spawned) = 1
    /\ spawned[1].op = "lock"
    /\ spawned[1].issued # "running"

\* A lock fade requested by a tick has made all its writes, the last at min
FadeOutDone ==
    \E i \in Operating :
        /\ SlotUnlocked
        /\ active[i].op = "lock"
        /\ active[i].pc = "clear"
        /\ ~active[i].err
        /\ active[i].step + 1 = FadeSteps(PULSE_MIN_US, PULSE_MAX_US)
        /\ pin.written
        /\ pin.pulse = PULSE_MIN_US

\* C18: a refresh tick that finds a lock state other than Lock in the slot
\* reads is_lock = false and requests lock_light, which returns Ok, and only
\* that; if the manager was idle, the request is made on an idle manager.
\* After such a request the flag becomes true for a lock fade and false
\* again, the writes of a lock fade start at max and go down by 100 each,
\* and, unless a hardware step fails, a lock fade makes its last write at
\* min.
C18_UnlockedMessageFadesOut ==
    /\ [][(TickStarts /\ SlotUnlocked) =>
            /\ ~IsLock
            /\ ret' = "Ok"
            /\ Len(spawned') = Len(spawned) + 1
            /\ spawned'[Len(spawned')].op = "lock"
            /\ Idle => IdleLockIssued'
         ]_vars
    /\ IdleLockIssued ~> (is_running /\ \E i \in Operating : active[i].op = "lock")
    /\ is_running ~> ~is_running
    /\ IdleLockIssued ~> (hw_failed \/ FadeOutDone)
    /\ [][\A i \in 1..Len(active) :
            (Writes(i) /\ active[i].op = "lock") =>
               pin'.pulse = IF active[i].step = 0 THEN PULSE_MAX_US
                                                  ELSE pin.pulse - FADE_STEP
         ]_vars

\* C18 witness: the tick found the merged Unlock record with the manager
\* idle, and the lock fade it requested has made its 91 writes down to min
\* with no hardware failure in the run.
C18_Witness ==
    /\ FadeOutDone
    /\ ~hw_failed
    /\ \E i \in Operating : active[i].issued = "idle"

\* C19: while a task is at a hardware write of its operation, the is_running
\* mutex is free, so that a request can inspect the flag without waiting.
C19_MutexFreeDuringOperation ==
    Writing # {} => (MutexFree /\ waiters = <<>>)

\* C20: at most one actuator task exists at any time, whatever the refresh
\* ticks that arrive while a fade is in flight.
C20_AtMostOneTask == LiveTasks <= 1

\* The lock and unlock requests whose tasks are alive
LockIntents(s) == {i \in 1..Len(s) : s[i].op \in {"lock", "unlock"}}

\* C21: while the lock-state slot holds the first record merged into it,
\* and so has been constant since it was set, the refresh ticks have
\* issued at most one lock or unlock request.
C21_IntentOnlyOnTransition ==
    model["lock_state"].id = 1 =>
        Cardinality(LockIntents(spawned)) + Cardinality(LockIntents(waiters))
            + Cardinality(LockIntents(active)) <= 1

C23_QueuedRecordsMerged ==
    /\ [](\A t \in Topics : MergeGone(t) => (Drained(t) /\ model[t] = last[t]))
    /\ <>[](\A t \in Topics : PumpGone(t) => (MergeGone(t) /\ model[t] = last[t]))

\* C23 witness: the lock-state pump has ended with records in the queue,
\* and the merge task has taken the first of them.
C23_Witness ==
    /\ PumpGone("lock_state")
    /\ queue["lock_state"] # <<>>
    /\ merge["lock_state"].pc = "write"
    /\ model["lock_state"] = NoMsg

====
